---- MODULE Spec2Model ----
(***************************************************************************)
(* Model of the pets service: the in-memory server (InMemoryServer), the   *)
(* repository-backed server (Server over PostgresRepository), their shared *)
(* pagination policy, and the Google OAuth handler's state handling.       *)
(***************************************************************************)
EXTENDS Integers, Sequences, FiniteSets, TLC

VARIABLES
    variant,    \* which ServerInterface implementation is mounted: "mem" | "repo"
    pets,       \* InMemoryServer.pets  : map[int64]Pet
    order,      \* InMemoryServer.order : []int64
    mu,         \* InMemoryServer.mu    : sync.RWMutex, [writer, readers]
    table,      \* the rows of the PostgreSQL table pets, keyed by id
    req,        \* the request last handled (sequential specifications)
    resp,       \* its response
    access,     \* what that request did to the store: "none" | "read" | "write"
    created,    \* history: the JSON objects whose create ended in 201
    wk,         \* per worker: the request in flight and the handler's position
    pager,      \* a client that follows continuation hints
    oauth,      \* the OAuth handler's requests, the browser's cookie jar, the provider
    twin,       \* the repository-backed server's response, when both servers are run
    call        \* the last update or delete made of a storage backend, its outcome

vars == <<variant, pets, order, mu, table, req, resp, access, created, wk,
          pager, oauth, twin, call>>

-----------------------------------------------------------------------------
(* Bounds of the model *)

\* pet ids range over -1 and 1..MaxId (0 is the "missing id" value)
MaxId == 2
\* size of the pre-existing block of pets used to exercise the limit clamp
BulkExtra == 2

(* Program constants *)
MaxLimit == 100
StatusOK == 200
StatusCreated == 201
StatusFound == 302
StatusBadRequest == 400
StatusNotFound == 404
StatusConflict == 409
StatusInternalServerError == 500
StatusBadGateway == 502
MaxInt32 == 2147483647

-----------------------------------------------------------------------------
(* Values *)

\* a *string / *int32: nil or a pointer to a value
Nil == <<>>
Ptr(v) == <<v>>

\* sql.NullString and the NULL that a nil `any` parameter becomes
SqlNull == [Valid |-> FALSE, String |-> ""]
SqlString(s) == [Valid |-> TRUE, String |-> s]

Ids == (-1 .. MaxId) \ {0}

Pet(id, name, tag) == [Id |-> id, Name |-> name, Tag |-> tag]
ZeroPet == Pet(0, "", Nil)

NoHeader == <<>>

Min(a, b) == IF a < b THEN a ELSE b

\* a slice built element by element: the sequence of its values
Slice(f) == f \o <<>>

-----------------------------------------------------------------------------
(* strconv.FormatInt(n, 10) and fmt's %d: decimal digits, "-" for negatives *)

DigitChar == <<"0", "1", "2", "3", "4", "5", "6", "7", "8", "9">>

RECURSIVE FormatNat(_)
FormatNat(n) ==
    IF n < 10 THEN DigitChar[n + 1]
    ELSE FormatNat(n \div 10) \o DigitChar[(n % 10) + 1]

FormatInt(n) == IF n < 0 THEN "-" \o FormatNat(-n) ELSE FormatNat(n)

-----------------------------------------------------------------------------
(* JSON bodies.  An object is a record of optional fields (Nil: the field  *)
(* is not in the object); a request body is an object or is not JSON.      *)

JsonObject(id, name, tag) == [id |-> id, name |-> name, tag |-> tag]
NotJson == [kind |-> "malformed", obj |-> JsonObject(Nil, Nil, Nil)]
JsonBody(o) == [kind |-> "object", obj |-> o]

\* json.Decoder.Decode(&pet): a field that is not in the object keeps its
\* zero value; Tag is a pointer and stays nil
DecodePet(body) ==
    IF body.kind # "object" THEN [err |-> TRUE, pet |-> ZeroPet]
    ELSE [err |-> FALSE,
          pet |-> Pet(IF body.obj.id = Nil THEN 0 ELSE body.obj.id[1],
                      IF body.obj.name = Nil THEN "" ELSE body.obj.name[1],
                      body.obj.tag)]

\* json.Encoder.Encode(pet): id and name always, tag only when non-nil
EncodePet(pet) == JsonObject(Ptr(pet.Id), Ptr(pet.Name), pet.Tag)

EncodePets(ps) == Slice([i \in 1..Len(ps) |-> EncodePet(ps[i])])

(* Responses: status, the x-next header, and the body *)
NoPet == JsonObject(Nil, Nil, Nil)
Response(status, xnext, kind, message, list, one) ==
    [status |-> status, xnext |-> xnext, kind |-> kind,
     message |-> message, list |-> list, one |-> one]

NoResponse == Response(0, NoHeader, "none", "", <<>>, NoPet)

\* writeError: the Error{Code, Message} body; Code is the status
writeError(status, message) ==
    Response(status, NoHeader, "error", message, <<>>, NoPet)

\* writeJSON of a pet list, with the x-next header set before it or not
writeJSONList(status, xnext, ps) ==
    Response(status, xnext, "pets", "", EncodePets(ps), NoPet)

\* writeJSON of one pet
writeJSONPet(status, pet) ==
    Response(status, NoHeader, "pet", "", <<>>, EncodePet(pet))

\* w.WriteHeader(status) and nothing else
writeHeaderOnly(status) ==
    Response(status, NoHeader, "empty", "", <<>>, NoPet)

-----------------------------------------------------------------------------
(* validatePet *)

\* a validation that forgets the name
validatePetIdOnly(pet) ==
    IF pet.Id = 0 THEN "id is required" ELSE ""

validatePet(pet) ==
    IF pet.Id = 0 THEN "id is required"
    ELSE IF pet.Name = "" THEN "name is required"
    ELSE ""

-----------------------------------------------------------------------------
(* strconv.ParseInt(s, 10, 64) on a text given as its characters.  The     *)
(* range check compares digit strings, so that no 64-bit value is needed.  *)

IsDigit(c) == \E i \in 1..10 : DigitChar[i] = c
DigitVal(c) == (CHOOSE i \in 1..10 : DigitChar[i] = c) - 1

RECURSIVE StripZeros(_)
StripZeros(ds) ==
    IF Len(ds) > 1 /\ Head(ds) = "0" THEN StripZeros(Tail(ds)) ELSE ds

\* 2^63 - 1 and 2^63 as digits
MaxInt64Digits ==
    <<"9","2","2","3","3","7","2","0","3","6","8","5","4","7","7","5","8","0","7">>
MinInt64Digits ==
    <<"9","2","2","3","3","7","2","0","3","6","8","5","4","7","7","5","8","0","8">>

RECURSIVE DigitsLeq(_, _)
\* a <= b for digit strings of the same length
DigitsLeq(a, b) ==
    IF a = <<>> THEN TRUE
    ELSE IF DigitVal(Head(a)) < DigitVal(Head(b)) THEN TRUE
    ELSE IF DigitVal(Head(a)) > DigitVal(Head(b)) THEN FALSE
    ELSE DigitsLeq(Tail(a), Tail(b))

InRange64(ds, bound) ==
    LET d == StripZeros(ds) IN
    \/ Len(d) < Len(bound)
    \/ Len(d) = Len(bound) /\ DigitsLeq(d, bound)

RECURSIVE DigitsValue(_, _)
DigitsValue(ds, acc) ==
    IF ds = <<>> THEN acc
    ELSE DigitsValue(Tail(ds), acc * 10 + DigitVal(Head(ds)))

ParseInt(s) ==
    LET neg == s # <<>> /\ Head(s) = "-"
        signed == s # <<>> /\ Head(s) \in {"+", "-"}
        ds == IF signed THEN Tail(s) ELSE s
    IN  IF ds = <<>> \/ \E i \in 1..Len(ds) : ~IsDigit(ds[i])
        THEN [err |-> TRUE, val |-> 0]          \* ErrSyntax
        ELSE IF ~InRange64(ds, IF neg THEN MinInt64Digits ELSE MaxInt64Digits)
        THEN [err |-> TRUE, val |-> 0]          \* ErrRange
        ELSE [err |-> FALSE,
              val |-> IF neg THEN 0 - DigitsValue(StripZeros(ds), 0)
                      ELSE DigitsValue(StripZeros(ds), 0)]



-----------------------------------------------------------------------------
(* Limits: params.Limit is a *int32 *)

Inc32(x) == IF x = MaxInt32 THEN (0 - MaxInt32) - 1 ELSE x + 1

\* a limit that is not capped
MemLimitNoClamp(params) ==
    IF params = Nil THEN [bad |-> FALSE, limit |-> 0]
    ELSE IF params[1] < 0 THEN [bad |-> TRUE, limit |-> params[1]]
    ELSE [bad |-> FALSE, limit |-> params[1]]

\* InMemoryServer.ListPets, the limit it works with
MemLimit(params) ==
    IF params = Nil THEN [bad |-> FALSE, limit |-> 0]
    ELSE IF params[1] < 0 THEN [bad |-> TRUE, limit |-> params[1]]
    ELSE IF params[1] > MaxLimit THEN [bad |-> FALSE, limit |-> MaxLimit]
    ELSE [bad |-> FALSE, limit |-> params[1]]

\* a limit that is checked for its sign and not capped
ServerLimitNoClamp(params) ==
    IF params = Nil THEN [bad |-> FALSE, limit |-> 0]
    ELSE IF params[1] < 0 THEN [bad |-> TRUE, limit |-> params[1]]
    ELSE [bad |-> FALSE, limit |-> params[1]]

\* Server.ListPets, the limit it works with
ServerLimit(params) ==
    IF params = Nil THEN [bad |-> FALSE, limit |-> 0]
    ELSE IF params[1] < 0 THEN [bad |-> TRUE, limit |-> params[1]]
    ELSE IF params[1] > MaxLimit THEN [bad |-> FALSE, limit |-> MaxLimit]
    ELSE [bad |-> FALSE, limit |-> params[1]]

\* a fetch of limit rows only: no row is left to tell that more exist
FetchLimitNoExtra(limit) == limit

\* Server.ListPets, the limit it hands to the repository
FetchLimit(limit) == IF limit > 0 THEN Inc32(limit) ELSE limit

-----------------------------------------------------------------------------
(* sort.Slice(pets, by Id): the pets in ascending order of Id.  Each pet   *)
(* goes to the place given by the number of pets that come before it (a    *)
(* smaller Id; for equal Ids, an earlier index).                           *)

SortRank(ps, i) ==
    Cardinality({j \in 1..Len(ps) :
                    \/ ps[j].Id < ps[i].Id
                    \/ ps[j].Id = ps[i].Id /\ j < i}) + 1

\* a missing sort: the pets stay in insertion order
SortByIdMissing(ps) == ps

SortById(ps) ==
    LET rank == Slice([i \in 1..Len(ps) |-> SortRank(ps, i)])
        from == Slice([r \in 1..Len(ps) |-> CHOOSE i \in 1..Len(ps) : rank[i] = r])
    IN  Slice([r \in 1..Len(ps) |-> ps[from[r]]])

-----------------------------------------------------------------------------
(* InMemoryServer *)

\* s.pets[id]: the zero Pet when id is not a key
MapGet(m, id) == IF id \in DOMAIN m THEN m[id] ELSE ZeroPet
MapPut(m, id, p) == [k \in DOMAIN m \cup {id} |-> IF k = id THEN p ELSE m[k]]

\* the loop of ListPets under RLock: one pet per entry of order
Snapshot(m, ord) == Slice([i \in 1..Len(ord) |-> MapGet(m, ord[i])])

\* the x-next header both servers write
NextHeader(limit, nextID) ==
    "/pets?limit=" \o FormatInt(limit) \o "&after=" \o FormatInt(nextID)

\* ListPets from line 48 on: sort, cut, header, body
MemPage(snapshot, limit) ==
    LET sorted == SortById(snapshot) IN
    IF limit > 0 /\ limit < Len(sorted)
    THEN writeJSONList(StatusOK,
                       Ptr(NextHeader(limit, sorted[limit + 1].Id)),
                       SubSeq(sorted, 1, limit))
    ELSE writeJSONList(StatusOK, NoHeader, sorted)

\* the whole handler; read says whether the store was read
InMemoryServerListPets(m, ord, params) ==
    LET lim == MemLimit(params) IN
    IF lim.bad
    THEN [resp |-> writeError(StatusBadRequest, "limit must be non-negative"),
          read |-> FALSE]
    ELSE [resp |-> MemPage(Snapshot(m, ord), lim.limit), read |-> TRUE]

\* CreatePets up to the lock: decode and validate; "" when the pet may be stored
CreateReject(body) ==
    LET d == DecodePet(body) IN
    IF d.err THEN "invalid JSON body" ELSE validatePet(d.pet)

\* a critical section that writes the record before it looks for the id
MemInsertWriteFirst(m, ord, pet) ==
    IF pet.Id \in DOMAIN m
    THEN [exists |-> TRUE, pets |-> MapPut(m, pet.Id, pet), order |-> ord]
    ELSE [exists |-> FALSE, pets |-> MapPut(m, pet.Id, pet),
          order |-> Append(ord, pet.Id)]

\* CreatePets, the critical section
MemInsert(m, ord, pet) ==
    IF pet.Id \in DOMAIN m
    THEN [exists |-> TRUE, pets |-> m, order |-> ord]
    ELSE [exists |-> FALSE, pets |-> MapPut(m, pet.Id, pet),
          order |-> Append(ord, pet.Id)]

InMemoryServerCreatePets(m, ord, body) ==
    LET msg == CreateReject(body)
        ins == MemInsert(m, ord, DecodePet(body).pet)
    IN  IF msg # ""
        THEN [resp |-> writeError(StatusBadRequest, msg),
              pets |-> m, order |-> ord, locked |-> FALSE]
        ELSE IF ins.exists
        THEN [resp |-> writeError(StatusConflict, "pet already exists"),
              pets |-> ins.pets, order |-> ins.order, locked |-> TRUE]
        ELSE [resp |-> writeHeaderOnly(StatusCreated),
              pets |-> ins.pets, order |-> ins.order, locked |-> TRUE]

\* a lookup that does not test `ok`: the zero Pet goes out with 200
InMemoryServerShowPetByIdNoOk(m, petId) ==
    LET id == ParseInt(petId) IN
    IF id.err
    THEN [resp |-> writeError(StatusBadRequest, "petId must be an integer"),
          read |-> FALSE]
    ELSE [resp |-> writeJSONPet(StatusOK, MapGet(m, id.val)), read |-> TRUE]

InMemoryServerShowPetById(m, petId) ==
    LET id == ParseInt(petId) IN
    IF id.err
    THEN [resp |-> writeError(StatusBadRequest, "petId must be an integer"),
          read |-> FALSE]
    ELSE IF id.val \notin DOMAIN m
    THEN [resp |-> writeError(StatusNotFound, "pet not found"), read |-> TRUE]
    ELSE [resp |-> writeJSONPet(StatusOK, MapGet(m, id.val)), read |-> TRUE]


-----------------------------------------------------------------------------
(* PostgresRepository over the table pets (id BIGINT PRIMARY KEY, name     *)
(* TEXT NOT NULL, tag TEXT).  fault: the text of the error with which the   *)
(* round trip fails for a reason of its own (connection lost, context      *)
(* cancelled), NoFault when it does not fail.                              *)

NoFault == ""

\* ORDER BY id ASC LIMIT n: the n smallest keys (all of them when there are
\* fewer), each at the place given by the number of smaller keys
OrderedIds(S, n) ==
    Slice([r \in 1..Min(n, Cardinality(S)) |->
              CHOOSE x \in S : Cardinality({y \in S : y < x}) = r - 1])

\* an empty tag written as NULL
TagParamEmptyAsNull(pet) ==
    IF pet.Tag # Nil /\ pet.Tag[1] # "" THEN SqlString(pet.Tag[1]) ELSE SqlNull

\* the tag parameter of INSERT and UPDATE: a nil `any` is NULL
TagParam(pet) == IF pet.Tag # Nil THEN SqlString(pet.Tag[1]) ELSE SqlNull

Row(pet) == [name |-> pet.Name, tag |-> TagParam(pet)]

\* a scan that points Tag at the column's string whether it is NULL or not
ScanPetTagAlways(id, row) == Pet(id, row.name, Ptr(row.tag.String))

\* rows.Scan into a Pet: Tag is set only when the column is not NULL
ScanPet(id, row) ==
    Pet(id, row.name, IF row.tag.Valid THEN Ptr(row.tag.String) ELSE Nil)

ScanRows(tbl, ids) ==
    Slice([i \in 1..Len(ids) |-> ScanPet(ids[i], tbl[ids[i]])])

PostgresRepositoryListPets(tbl, limit, fault) ==
    IF fault # NoFault
    THEN [err |-> "failed to list pets: " \o fault, pets |-> <<>>]
    ELSE [err |-> "",
          pets |-> ScanRows(tbl, OrderedIds(DOMAIN tbl,
                      IF limit > 0 THEN limit ELSE Cardinality(DOMAIN tbl)))]

PostgresRepositoryCreatePet(tbl, pet, fault) ==
    IF fault # NoFault
    THEN [err |-> "failed to create pet: " \o fault, table |-> tbl]
    ELSE IF pet.Id \in DOMAIN tbl              \* SQLSTATE 23505
    THEN [err |-> "ErrPetExists", table |-> tbl]
    ELSE [err |-> "",
          table |-> [k \in DOMAIN tbl \cup {pet.Id} |->
                        IF k = pet.Id THEN Row(pet) ELSE tbl[k]]]

PostgresRepositoryGetPet(tbl, id, fault) ==
    IF fault # NoFault
    THEN [err |-> "failed to fetch pet: " \o fault, pet |-> ZeroPet]
    ELSE IF id \notin DOMAIN tbl                \* pgx.ErrNoRows
    THEN [err |-> "ErrPetNotFound", pet |-> ZeroPet]
    ELSE [err |-> "", pet |-> ScanPet(id, tbl[id])]

\* UPDATE pets SET name = $2, tag = $3 WHERE id = $1; no row affected: not found
PostgresRepositoryUpdatePet(tbl, pet, fault) ==
    IF fault # NoFault
    THEN [err |-> "failed to update pet: " \o fault, table |-> tbl]
    ELSE IF pet.Id \notin DOMAIN tbl
    THEN [err |-> "ErrPetNotFound", table |-> tbl]
    ELSE [err |-> "", table |-> [tbl EXCEPT ![pet.Id] = Row(pet)]]

\* DELETE FROM pets WHERE id = $1; no row affected: not found
PostgresRepositoryDeletePet(tbl, id, fault) ==
    IF fault # NoFault
    THEN [err |-> "failed to delete pet: " \o fault, table |-> tbl]
    ELSE IF id \notin DOMAIN tbl
    THEN [err |-> "ErrPetNotFound", table |-> tbl]
    ELSE [err |-> "", table |-> [k \in DOMAIN tbl \ {id} |-> tbl[k]]]

-----------------------------------------------------------------------------
(* Server: the handlers over a PetRepository *)

\* a header that names the last pet of the page instead of the first one left out
ServerPageLastReturned(fetched, limit) ==
    IF limit > 0 /\ Len(fetched) > limit
    THEN writeJSONList(StatusOK,
                       Ptr(NextHeader(limit, fetched[limit].Id)),
                       SubSeq(fetched, 1, limit))
    ELSE writeJSONList(StatusOK, NoHeader, fetched)

\* ListPets from line 177 on: cut, header, body
ServerPage(fetched, limit) ==
    IF limit > 0 /\ Len(fetched) > limit
    THEN writeJSONList(StatusOK,
                       Ptr(NextHeader(limit, fetched[limit + 1].Id)),
                       SubSeq(fetched, 1, limit))
    ELSE writeJSONList(StatusOK, NoHeader, fetched)

ServerListPets(tbl, params, fault) ==
    LET lim == ServerLimit(params)
        fetchLimit == FetchLimit(lim.limit)
        got == PostgresRepositoryListPets(tbl, fetchLimit, fault)
    IN  IF lim.bad
        THEN [resp |-> writeError(StatusBadRequest, "limit must be non-negative"),
              read |-> FALSE, fetchLimit |-> 0]
        ELSE IF got.err # ""
        THEN [resp |-> writeError(StatusInternalServerError, "failed to list pets"),
              read |-> TRUE, fetchLimit |-> fetchLimit]
        ELSE [resp |-> ServerPage(got.pets, lim.limit),
              read |-> TRUE, fetchLimit |-> fetchLimit]

ServerCreatePets(tbl, body, fault) ==
    LET msg == CreateReject(body)
        ins == PostgresRepositoryCreatePet(tbl, DecodePet(body).pet, fault)
    IN  IF msg # ""
        THEN [resp |-> writeError(StatusBadRequest, msg),
              table |-> tbl, stored |-> FALSE, called |-> FALSE]
        ELSE IF ins.err = "ErrPetExists"
        THEN [resp |-> writeError(StatusConflict, "pet already exists"),
              table |-> ins.table, stored |-> FALSE, called |-> TRUE]
        ELSE IF ins.err # ""
        THEN [resp |-> writeError(StatusInternalServerError, "failed to create pet"),
              table |-> ins.table, stored |-> FALSE, called |-> TRUE]
        ELSE [resp |-> writeHeaderOnly(StatusCreated),
              table |-> ins.table, stored |-> TRUE, called |-> TRUE]

\* a 500 that carries the text of the repository's error
ServerShowPetByIdErrText(tbl, petId, fault) ==
    LET id == ParseInt(petId)
        got == PostgresRepositoryGetPet(tbl, id.val, fault)
    IN  IF id.err
        THEN [resp |-> writeError(StatusBadRequest, "petId must be an integer"),
              read |-> FALSE]
        ELSE IF got.err = "ErrPetNotFound"
        THEN [resp |-> writeError(StatusNotFound, "pet not found"), read |-> TRUE]
        ELSE IF got.err # ""
        THEN [resp |-> writeError(StatusInternalServerError, got.err), read |-> TRUE]
        ELSE [resp |-> writeJSONPet(StatusOK, got.pet), read |-> TRUE]

ServerShowPetById(tbl, petId, fault) ==
    LET id == ParseInt(petId)
        got == PostgresRepositoryGetPet(tbl, id.val, fault)
    IN  IF id.err
        THEN [resp |-> writeError(StatusBadRequest, "petId must be an integer"),
              read |-> FALSE]
        ELSE IF got.err = "ErrPetNotFound"
        THEN [resp |-> writeError(StatusNotFound, "pet not found"), read |-> TRUE]
        ELSE IF got.err # ""
        THEN [resp |-> writeError(StatusInternalServerError, "failed to fetch pet"),
              read |-> TRUE]
        ELSE [resp |-> writeJSONPet(StatusOK, got.pet), read |-> TRUE]


-----------------------------------------------------------------------------
(* Inputs *)

\* create bodies that pass validation: two pets per id that differ in name and
\* tag (no tag, an empty tag), and one more with a non-empty tag
ValidObjects ==
    {JsonObject(Ptr(i), Ptr("a"), Nil) : i \in Ids} \cup
    {JsonObject(Ptr(i), Ptr("b"), Ptr("")) : i \in Ids} \cup
    {JsonObject(Ptr(1), Ptr("a"), Ptr("t"))}

\* create bodies that do not: an id or a name that is missing, zero or empty
InvalidObjects ==
    {JsonObject(Nil, Ptr("a"), Nil), JsonObject(Ptr(0), Ptr("a"), Ptr("t")),
     JsonObject(Ptr(1), Nil, Nil), JsonObject(Ptr(1), Ptr(""), Ptr("t")),
     JsonObject(Nil, Nil, Nil)}

Bodies == {NotJson} \cup {JsonBody(o) : o \in ValidObjects \cup InvalidObjects}

\* ?limit=: absent, negative, zero, small, over the cap
Limits == {Nil} \cup {Ptr(n) : n \in {-1, 0, 1, 2, MaxLimit + 1}}

\* {petId}: texts of ids, a signed one, one with leading zeros, and texts
\* that are no int64
Text(n) == IF n < 0 THEN <<"-", DigitChar[1 - n]>> ELSE <<DigitChar[n + 1]>>
PetIdTexts ==
    {Text(i) : i \in Ids \cup {0}} \cup
    {<<"+", "1">>, <<"0", "2">>, <<>>, <<"a", "b", "c">>, <<"-">>,
     <<"9","2","2","3","3","7","2","0","3","6","8","5","4","7","7","5","8","0","8">>}

Request(op, body, params, petId, fault) ==
    [op |-> op, body |-> body, params |-> params, petId |-> petId, fault |-> fault]
NoRequest == Request("none", NotJson, Nil, <<>>, NoFault)

\* the errors a round trip to the database can end with
Faults == {NoFault, "connection refused", "relation pets does not exist"}

-----------------------------------------------------------------------------
(* State of the parts a specification does not exercise *)

Workers == {1, 2}
\* the read a worker serves: the operation, the limit or the id it works with,
\* what it copied out of the store under the lock (seen; found for a lookup),
\* and as history the creates that had ended in 201 when the read arrived
ReadIdle == [op |-> "none", limit |-> 0, id |-> 0, seen |-> <<>>, found |-> FALSE,
             before |-> {}]
MuFree == [writer |-> 0, readers |-> {}]
\* a worker: pc is its place in the handler; fresh and with are history (was
\* the id stored when the request began; the workers whose request on the same
\* id was in flight at some moment of this one)
WorkerIdle == [pc |-> "idle", body |-> NotJson, pet |-> ZeroPet, resp |-> NoResponse,
               fault |-> NoFault, fresh |-> FALSE, with |-> {}, read |-> ReadIdle]
PagerIdle == [pc |-> "idle", limit |-> 0, after |-> Nil, hint |-> NoHeader,
              pages |-> <<>>]
OAuthIdle == [h |-> [maxAge |-> 0], cfg |-> 0, jar |-> Nil, op |-> "none",
              query |-> <<>>, cookie |-> Nil, provider |-> "unasked", rand |-> Nil,
              resp |-> <<>>,
              replayed |-> FALSE]

EmptyMap == [k \in {} |-> ZeroPet]
EmptyTable == [k \in {} |-> Row(ZeroPet)]

\* a call of a storage backend: the operation, its argument (a pet to update,
\* an id to delete), the error it returned, and as history the store before it
NoCall == [op |-> "none", pet |-> ZeroPet, id |-> 0, err |-> "", before |-> <<>>]

-----------------------------------------------------------------------------
(* The pet service, one request at a time *)

Init ==
    /\ variant \in {"mem", "repo"}
    /\ pets = EmptyMap
    /\ order = <<>>
    /\ mu = MuFree
    /\ table = EmptyTable
    /\ req = NoRequest
    /\ resp = NoResponse
    /\ access = "none"
    /\ created = {}
    /\ wk = [w \in Workers |-> WorkerIdle]
    /\ pager = PagerIdle
    /\ oauth = OAuthIdle
    /\ twin = NoResponse
    /\ call = NoCall

MemListPets(params) ==
    LET r == InMemoryServerListPets(pets, order, params) IN
    /\ variant = "mem"
    /\ req' = Request("list", NotJson, params, <<>>, NoFault)
    /\ resp' = r.resp
    /\ access' = IF r.read THEN "read" ELSE "none"
    /\ UNCHANGED <<variant, pets, order, mu, table, created, wk, pager, oauth, twin, call>>

MemCreatePets(body) ==
    LET r == InMemoryServerCreatePets(pets, order, body) IN
    /\ variant = "mem"
    /\ req' = Request("create", body, Nil, <<>>, NoFault)
    /\ resp' = r.resp
    /\ access' = IF r.locked THEN "write" ELSE "none"
    /\ pets' = r.pets
    /\ order' = r.order
    /\ created' = IF r.resp.status = StatusCreated
                  THEN created \cup {body.obj} ELSE created
    /\ UNCHANGED <<variant, mu, table, wk, pager, oauth, twin, call>>

MemShowPetById(petId) ==
    LET r == InMemoryServerShowPetById(pets, petId) IN
    /\ variant = "mem"
    /\ req' = Request("show", NotJson, Nil, petId, NoFault)
    /\ resp' = r.resp
    /\ access' = IF r.read THEN "read" ELSE "none"
    /\ UNCHANGED <<variant, pets, order, mu, table, created, wk, pager, oauth, twin, call>>

RepoListPets(params, fault) ==
    LET r == ServerListPets(table, params, fault) IN
    /\ variant = "repo"
    /\ req' = Request("list", NotJson, params, <<>>, fault)
    /\ resp' = r.resp
    /\ access' = IF r.read THEN "read" ELSE "none"
    /\ UNCHANGED <<variant, pets, order, mu, table, created, wk, pager, oauth, twin, call>>

RepoCreatePets(body, fault) ==
    LET r == ServerCreatePets(table, body, fault) IN
    /\ variant = "repo"
    /\ req' = Request("create", body, Nil, <<>>, fault)
    /\ resp' = r.resp
    /\ access' = IF r.called THEN "write" ELSE "none"
    /\ table' = r.table
    /\ created' = IF r.resp.status = StatusCreated
                  THEN created \cup {body.obj} ELSE created
    /\ UNCHANGED <<variant, pets, order, mu, wk, pager, oauth, twin, call>>

RepoShowPetById(petId, fault) ==
    LET r == ServerShowPetById(table, petId, fault) IN
    /\ variant = "repo"
    /\ req' = Request("show", NotJson, Nil, petId, fault)
    /\ resp' = r.resp
    /\ access' = IF r.read THEN "read" ELSE "none"
    /\ UNCHANGED <<variant, pets, order, mu, table, created, wk, pager, oauth, twin, call>>

Next ==
    \/ \E params \in Limits : MemListPets(params)
    \/ \E body \in Bodies : MemCreatePets(body)
    \/ \E petId \in PetIdTexts : MemShowPetById(petId)
    \/ \E params \in Limits, fault \in Faults : RepoListPets(params, fault)
    \/ \E body \in Bodies, fault \in Faults : RepoCreatePets(body, fault)
    \/ \E petId \in PetIdTexts, fault \in Faults : RepoShowPetById(petId, fault)

Spec == Init /\ [][Next]_vars


\* the ids of the objects a list response carries, in the order it carries them
ListIds(r) == Slice([i \in 1..Len(r.list) |-> r.list[i].id[1]])

-----------------------------------------------------------------------------
(* Pagination (SpecPage): ListPets over a store that holds pets already,   *)
(* and a client that follows the x-next header it is given.                *)

\* upper bound on the pages the client asks for
MaxPagerSteps == 3

\* the ids of the small stores, in the order they were created in
SmallOrder == <<5, 1, 3, 9>>
SmallIds == {SmallOrder[i] : i \in 1..Len(SmallOrder)}

\* a block of pets created in ascending order, one more than the cap at least
BulkIds == 11 .. (10 + MaxLimit + BulkExtra)

\* the stores the requests run on: every subset of the small ids (SpecPage),
\* and the block with some of them (SpecClamp)
SmallIdSets == SUBSET SmallIds
LargeIdSets ==
    {BulkIds \cup S : S \in {{}, {1}, {9}, {1, 3}, {5, 9}, SmallIds}}

StoredPet(id) == Pet(id, "a", IF id = 3 THEN Ptr("t") ELSE Nil)

\* the creates that filled the store, in order: the small ids, then the block
FillOrder(S) ==
    SelectSeq(SmallOrder, LAMBDA i : i \in S)
        \o OrderedIds(S \cap BulkIds, Cardinality(S \cap BulkIds))

\* the store after those creates
FillMem(S) == [pets |-> [id \in S |-> StoredPet(id)], order |-> FillOrder(S)]
FillTable(S) == [id \in S |-> Row(StoredPet(id))]

PageLimits ==
    {Nil} \cup {Ptr(n) : n \in {-1, 0, 1, 2, 4, MaxLimit, MaxLimit + 1, MaxInt32}}

\* the ids a header can name
HeaderIds == SmallIds \cup BulkIds

\* the client reads limit and after back out of the header it was given
ParseHeader(h) ==
    CHOOSE q \in [limit : {1, 2, 4, MaxLimit}, after : HeaderIds] :
        NextHeader(q.limit, q.after) = h

\* ListPets of the mounted server; ListPetsParams carries the limit only
ListPetsHandler(params) ==
    LET m == InMemoryServerListPets(pets, order, params)
        s == ServerListPets(table, params, NoFault)
    IN  IF variant = "mem" THEN [resp |-> m.resp, read |-> m.read]
        ELSE [resp |-> s.resp, read |-> s.read]

\* a server whose store holds the pets of S
InitStored(S) ==
    /\ variant \in {"mem", "repo"}
    /\ pets = IF variant = "mem" THEN FillMem(S).pets ELSE EmptyMap
    /\ order = IF variant = "mem" THEN FillMem(S).order ELSE <<>>
    /\ table = IF variant = "repo" THEN FillTable(S) ELSE EmptyTable
    /\ mu = MuFree
    /\ req = NoRequest
    /\ resp = NoResponse
    /\ access = "none"
    /\ created = {}
    /\ wk = [w \in Workers |-> WorkerIdle]
    /\ pager = PagerIdle
    /\ oauth = OAuthIdle
    /\ twin = NoResponse
    /\ call = NoCall

InitPage == \E S \in SmallIdSets : InitStored(S)

\* GET /pets?limit=L, the client's first request
PagerStart(L) ==
    LET r == ListPetsHandler(Ptr(L)) IN
    /\ pager.pc = "idle"
    /\ req' = Request("list", NotJson, Ptr(L), <<>>, NoFault)
    /\ resp' = r.resp
    /\ access' = IF r.read THEN "read" ELSE "none"
    /\ pager' = [pc |-> IF r.resp.xnext = NoHeader THEN "done" ELSE "more",
                 limit |-> L, after |-> Nil, hint |-> r.resp.xnext,
                 pages |-> <<ListIds(r.resp)>>]
    /\ UNCHANGED <<variant, pets, order, mu, table, created, wk, oauth, twin, call>>

\* GET <x-next>: limit and after as the header gave them; the handlers are
\* given the limit, and nothing reads after
PagerFollow ==
    LET q == ParseHeader(pager.hint[1])
        r == ListPetsHandler(Ptr(q.limit))
    IN  /\ pager.pc = "more"
        /\ Len(pager.pages) < MaxPagerSteps
        /\ req' = Request("list", NotJson, Ptr(q.limit), <<>>, NoFault)
        /\ resp' = r.resp
        /\ access' = IF r.read THEN "read" ELSE "none"
        /\ pager' = [pc |-> IF r.resp.xnext = NoHeader THEN "done" ELSE "more",
                     limit |-> q.limit, after |-> Ptr(q.after),
                     hint |-> r.resp.xnext,
                     pages |-> Append(pager.pages, ListIds(r.resp))]
        /\ UNCHANGED <<variant, pets, order, mu, table, created, wk, oauth, twin, call>>

\* single list requests, and the session of one client that follows headers
NextPage ==
    \/ pager.pc = "idle" /\ \E params \in PageLimits : MemListPets(params)
    \/ pager.pc = "idle" /\ \E params \in PageLimits : RepoListPets(params, NoFault)
    \/ \E L \in {1, 2, 4, MaxLimit} : PagerStart(L)
    \/ PagerFollow

SpecPage == InitPage /\ [][NextPage]_vars

(* The limit cap (SpecClamp): list requests over stores of more than 100 pets *)
InitClamp == \E S \in LargeIdSets : InitStored(S)

NextClamp ==
    \/ \E params \in PageLimits : MemListPets(params)
    \/ \E params \in PageLimits : RepoListPets(params, NoFault)

SpecClamp == InitClamp /\ [][NextClamp]_vars

-----------------------------------------------------------------------------
(* Concurrent creates (SpecRace): each worker runs CreatePets step by step; *)
(* a step is what the handler does between two points where another       *)
(* request can run.                                                        *)

RaceBodies ==
    {JsonBody(JsonObject(Ptr(1), Ptr("a"), Nil)),
     JsonBody(JsonObject(Ptr(1), Ptr("b"), Ptr(""))),
     JsonBody(JsonObject(Ptr(2), Ptr("a"), Ptr("t"))),
     JsonBody(JsonObject(Ptr(0), Ptr("a"), Nil))}

\* a request that takes no lock
LockNotTaken(m) == TRUE

\* s.mu.Lock() returns: no writer and no reader holds the lock
LockAvailable(m) == m.writer = 0 /\ m.readers = {}

InFlight(w) == wk[w].pc \notin {"idle", "done"}

InitRace ==
    /\ variant \in {"mem", "repo"}
    /\ pets = EmptyMap
    /\ order = <<>>
    /\ mu = MuFree
    /\ table = EmptyTable
    /\ req = NoRequest
    /\ resp = NoResponse
    /\ access = "none"
    /\ created = {}
    /\ wk = [w \in Workers |-> WorkerIdle]
    /\ pager = PagerIdle
    /\ oauth = OAuthIdle
    /\ twin = NoResponse
    /\ call = NoCall

\* the request arrives: decode and validate (both servers)
CreateBegin(w, body) ==
    LET msg == CreateReject(body)
        pet == DecodePet(body).pet
        peers == {v \in Workers \ {w} : InFlight(v) /\ wk[v].pet.Id = pet.Id}
        stored == IF variant = "mem" THEN DOMAIN pets ELSE DOMAIN table
    IN  /\ wk[w].pc = "idle"
        /\ wk' = [v \in Workers |->
                    IF v = w
                    THEN IF msg # ""
                         THEN [WorkerIdle EXCEPT !.pc = "done", !.body = body,
                                  !.resp = writeError(StatusBadRequest, msg)]
                         ELSE [pc |-> IF variant = "mem" THEN "lock" ELSE "exec",
                               body |-> body, pet |-> pet, resp |-> NoResponse,
                               fault |-> NoFault,
                               fresh |-> pet.Id \notin stored, with |-> peers,
                               read |-> ReadIdle]
                    ELSE IF msg = "" /\ v \in peers
                    THEN [wk[v] EXCEPT !.with = @ \cup {w}]
                    ELSE wk[v]]
        /\ UNCHANGED <<variant, pets, order, mu, table, req, resp, access, created,
                       pager, oauth, twin, call>>

\* InMemoryServer.CreatePets: s.mu.Lock()
MemLock(w) ==
    /\ variant = "mem"
    /\ wk[w].pc = "lock"
    /\ LockAvailable(mu)
    /\ mu' = [writer |-> w, readers |-> {}]
    /\ wk' = [wk EXCEPT ![w].pc = "check"]
    /\ UNCHANGED <<variant, pets, order, table, req, resp, access, created, pager, oauth, twin, call>>

\* _, exists := s.pets[pet.Id]
MemCheck(w) ==
    /\ wk[w].pc = "check"
    /\ wk' = [wk EXCEPT ![w].pc =
                IF wk[w].pet.Id \in DOMAIN pets THEN "conflict" ELSE "put"]
    /\ UNCHANGED <<variant, pets, order, mu, table, req, resp, access, created,
                   pager, oauth, twin, call>>

\* s.mu.Unlock(); writeError(409)
MemConflict(w) ==
    /\ wk[w].pc = "conflict"
    /\ mu' = MuFree
    /\ wk' = [wk EXCEPT ![w].pc = "done",
                        ![w].resp = writeError(StatusConflict, "pet already exists")]
    /\ UNCHANGED <<variant, pets, order, table, req, resp, access, created, pager, oauth, twin, call>>

\* s.pets[pet.Id] = pet
MemPut(w) ==
    /\ wk[w].pc = "put"
    /\ pets' = MapPut(pets, wk[w].pet.Id, wk[w].pet)
    /\ wk' = [wk EXCEPT ![w].pc = "append"]
    /\ UNCHANGED <<variant, order, mu, table, req, resp, access, created, pager, oauth, twin, call>>

\* a create that leaves s.order as it is
MemAppendNothing(w) ==
    /\ wk[w].pc = "append"
    /\ wk' = [wk EXCEPT ![w].pc = "unlock"]
    /\ UNCHANGED <<variant, pets, order, mu, table, req, resp, access, created, pager,
                   oauth, twin, call>>

\* s.order = append(s.order, pet.Id)
MemAppend(w) ==
    /\ wk[w].pc = "append"
    /\ order' = Append(order, wk[w].pet.Id)
    /\ wk' = [wk EXCEPT ![w].pc = "unlock"]
    /\ UNCHANGED <<variant, pets, mu, table, req, resp, access, created, pager, oauth, twin, call>>

\* s.mu.Unlock(); w.WriteHeader(201)
MemCreated(w) ==
    /\ wk[w].pc = "unlock"
    /\ mu' = MuFree
    /\ wk' = [wk EXCEPT ![w].pc = "done", ![w].resp = writeHeaderOnly(StatusCreated)]
    /\ created' = created \cup {wk[w].body.obj}
    /\ UNCHANGED <<variant, pets, order, table, req, resp, access, pager, oauth, twin, call>>

\* Server.CreatePets: s.repo.CreatePet, one INSERT statement, and the response
RepoExec(w, fault) ==
    LET r == ServerCreatePets(table, wk[w].body, fault) IN
    /\ variant = "repo"
    /\ wk[w].pc = "exec"
    /\ table' = r.table
    /\ wk' = [wk EXCEPT ![w].pc = "done", ![w].resp = r.resp, ![w].fault = fault]
    /\ created' = IF r.resp.status = StatusCreated
                  THEN created \cup {wk[w].body.obj} ELSE created
    /\ UNCHANGED <<variant, pets, order, mu, req, resp, access, pager, oauth, twin, call>>

\* the response is out; the worker takes the next request
Finish(w) ==
    /\ wk[w].pc = "done"
    /\ wk' = [wk EXCEPT ![w] = WorkerIdle]
    /\ UNCHANGED <<variant, pets, order, mu, table, req, resp, access, created,
                   pager, oauth, twin, call>>

NextRace ==
    \E w \in Workers :
        \/ \E body \in RaceBodies : CreateBegin(w, body)
        \/ MemLock(w)
        \/ MemCheck(w)
        \/ MemConflict(w)
        \/ MemPut(w)
        \/ MemAppend(w)
        \/ MemCreated(w)
        \/ \E fault \in Faults : RepoExec(w, fault)
        \/ Finish(w)

SpecRace == InitRace /\ [][NextRace]_vars

(* Both servers given the same requests, the repository never failing      *)
(* (SpecTwin): resp is the in-memory server's response, twin the other's.   *)

InitTwin ==
    /\ variant = "both"
    /\ pets = EmptyMap
    /\ order = <<>>
    /\ mu = MuFree
    /\ table = EmptyTable
    /\ req = NoRequest
    /\ resp = NoResponse
    /\ access = "none"
    /\ created = {}
    /\ wk = [w \in Workers |-> WorkerIdle]
    /\ pager = PagerIdle
    /\ oauth = OAuthIdle
    /\ twin = NoResponse
    /\ call = NoCall

TwinListPets(params) ==
    /\ req' = Request("list", NotJson, params, <<>>, NoFault)
    /\ resp' = InMemoryServerListPets(pets, order, params).resp
    /\ twin' = ServerListPets(table, params, NoFault).resp
    /\ UNCHANGED <<variant, pets, order, mu, table, access, created, wk, pager, oauth,
                   call>>

TwinCreatePets(body) ==
    LET m == InMemoryServerCreatePets(pets, order, body)
        r == ServerCreatePets(table, body, NoFault)
    IN  /\ req' = Request("create", body, Nil, <<>>, NoFault)
        /\ resp' = m.resp
        /\ pets' = m.pets
        /\ order' = m.order
        /\ twin' = r.resp
        /\ table' = r.table
        /\ UNCHANGED <<variant, mu, access, created, wk, pager, oauth, call>>

TwinShowPetById(petId) ==
    /\ req' = Request("show", NotJson, Nil, petId, NoFault)
    /\ resp' = InMemoryServerShowPetById(pets, petId).resp
    /\ twin' = ServerShowPetById(table, petId, NoFault).resp
    /\ UNCHANGED <<variant, pets, order, mu, table, access, created, wk, pager, oauth,
                   call>>

NextTwin ==
    \/ \E params \in Limits : TwinListPets(params)
    \/ \E body \in Bodies : TwinCreatePets(body)
    \/ \E petId \in PetIdTexts : TwinShowPetById(petId)

SpecTwin == InitTwin /\ [][NextTwin]_vars

(* Update and delete asked of each storage backend (SpecStore) *)

\* the methods of InMemoryServer, all there are
InMemoryServerMethods == {"ListPets", "CreatePets", "ShowPetById"}

\* the pets to update with and the ids to delete: stored ones and one that is not
UpdatePets == {Pet(id, "n", tag) : id \in {1, 3, 7}, tag \in {Nil, Ptr("")}}
DeleteIds == {1, 3, 7}

\* what the mounted backend holds, as JSON objects by id
StoreContents ==
    IF variant = "mem"
    THEN [id \in DOMAIN pets |-> EncodePet(pets[id])]
    ELSE [id \in DOMAIN table |-> EncodePet(ScanPet(id, table[id]))]

InitStore == \E S \in SmallIdSets : InitStored(S)

\* PostgresRepository.UpdatePet
RepoUpdatePet(pet, fault) ==
    LET r == PostgresRepositoryUpdatePet(table, pet, fault) IN
    /\ variant = "repo"
    /\ table' = r.table
    /\ call' = [op |-> "update", pet |-> pet, id |-> pet.Id, err |-> r.err,
                before |-> StoreContents]
    /\ UNCHANGED <<variant, pets, order, mu, req, resp, access, created, wk, pager,
                   oauth, twin>>

\* PostgresRepository.DeletePet
RepoDeletePet(id, fault) ==
    LET r == PostgresRepositoryDeletePet(table, id, fault) IN
    /\ variant = "repo"
    /\ table' = r.table
    /\ call' = [op |-> "delete", pet |-> ZeroPet, id |-> id, err |-> r.err,
                before |-> StoreContents]
    /\ UNCHANGED <<variant, pets, order, mu, req, resp, access, created, wk, pager,
                   oauth, twin>>

\* an update or a delete asked of the in-memory server: it has no such method,
\* nothing is called and the store stays as it is
MemNoSuchMethod(op, pet, id) ==
    /\ variant = "mem"
    /\ op \notin InMemoryServerMethods
    /\ call' = [op |-> IF op = "UpdatePet" THEN "update" ELSE "delete",
                pet |-> pet, id |-> id, err |-> "no such method",
                before |-> StoreContents]
    /\ UNCHANGED <<variant, pets, order, mu, table, req, resp, access, created, wk,
                   pager, oauth, twin>>

NextStore ==
    \/ \E pet \in UpdatePets, fault \in Faults : RepoUpdatePet(pet, fault)
    \/ \E id \in DeleteIds, fault \in Faults : RepoDeletePet(id, fault)
    \/ \E pet \in UpdatePets : MemNoSuchMethod("UpdatePet", pet, pet.Id)
    \/ \E id \in DeleteIds : MemNoSuchMethod("DeletePet", ZeroPet, id)

SpecStore == InitStore /\ [][NextStore]_vars

(* Reads of the in-memory server while creates run (SpecRead) *)

\* a read that takes no lock
RLockNotTaken(m) == TRUE

\* s.mu.RLock() returns: no writer holds the lock
RLockAvailable(m) == m.writer = 0

ReadLimits == {Nil, Ptr(-1), Ptr(1)}
ReadPetIds == {<<"1">>, <<"2">>, <<"a">>}

InitRead ==
    /\ variant = "mem"
    /\ pets = EmptyMap
    /\ order = <<>>
    /\ mu = MuFree
    /\ table = EmptyTable
    /\ req = NoRequest
    /\ resp = NoResponse
    /\ access = "none"
    /\ created = {}
    /\ wk = [w \in Workers |-> WorkerIdle]
    /\ pager = PagerIdle
    /\ oauth = OAuthIdle
    /\ twin = NoResponse
    /\ call = NoCall

\* InMemoryServer.ListPets arrives: the limit (lines 29-39)
ListBegin(w, params) ==
    LET lim == MemLimit(params) IN
    /\ wk[w].pc = "idle"
    /\ wk' = [wk EXCEPT ![w] =
                IF lim.bad
                THEN [WorkerIdle EXCEPT !.pc = "done",
                         !.read = [ReadIdle EXCEPT !.op = "list", !.before = created],
                         !.resp = writeError(StatusBadRequest,
                                             "limit must be non-negative")]
                ELSE [WorkerIdle EXCEPT !.pc = "rlock",
                         !.read = [ReadIdle EXCEPT !.op = "list", !.limit = lim.limit,
                                                   !.before = created]]]
    /\ UNCHANGED <<variant, pets, order, mu, table, req, resp, access, created,
                   pager, oauth, twin, call>>

\* InMemoryServer.ShowPetById arrives: strconv.ParseInt (lines 93-97)
ShowBegin(w, petId) ==
    LET id == ParseInt(petId) IN
    /\ wk[w].pc = "idle"
    /\ wk' = [wk EXCEPT ![w] =
                IF id.err
                THEN [WorkerIdle EXCEPT !.pc = "done",
                         !.read = [ReadIdle EXCEPT !.op = "show", !.before = created],
                         !.resp = writeError(StatusBadRequest,
                                             "petId must be an integer")]
                ELSE [WorkerIdle EXCEPT !.pc = "rlock",
                         !.read = [ReadIdle EXCEPT !.op = "show", !.id = id.val,
                                                   !.before = created]]]
    /\ UNCHANGED <<variant, pets, order, mu, table, req, resp, access, created,
                   pager, oauth, twin, call>>

\* s.mu.RLock()
MemRLock(w) ==
    /\ wk[w].pc = "rlock"
    /\ RLockAvailable(mu)
    /\ mu' = [mu EXCEPT !.readers = @ \cup {w}]
    /\ wk' = [wk EXCEPT ![w].pc = IF wk[w].read.op = "list" THEN "copy" ELSE "lookup"]
    /\ UNCHANGED <<variant, pets, order, table, req, resp, access, created, pager, oauth, twin, call>>

\* ListPets: the loop over s.order (lines 42-45)
MemCopy(w) ==
    /\ wk[w].pc = "copy"
    /\ wk' = [wk EXCEPT ![w].pc = "runlock", ![w].read.seen = Snapshot(pets, order)]
    /\ UNCHANGED <<variant, pets, order, mu, table, req, resp, access, created,
                   pager, oauth, twin, call>>

\* ShowPetById: pet, ok := s.pets[id]
MemLookup(w) ==
    /\ wk[w].pc = "lookup"
    /\ wk' = [wk EXCEPT ![w].pc = "runlock",
                        ![w].read.seen = <<MapGet(pets, wk[w].read.id)>>,
                        ![w].read.found = wk[w].read.id \in DOMAIN pets]
    /\ UNCHANGED <<variant, pets, order, mu, table, req, resp, access, created,
                   pager, oauth, twin, call>>

\* s.mu.RUnlock()
MemRUnlock(w) ==
    /\ wk[w].pc = "runlock"
    /\ mu' = [mu EXCEPT !.readers = @ \ {w}]
    /\ wk' = [wk EXCEPT ![w].pc = "respond"]
    /\ UNCHANGED <<variant, pets, order, table, req, resp, access, created, pager, oauth, twin, call>>

\* the rest of the read, on the worker's own copy: sort, cut and write the list
\* (lines 48-60), or write the pet or 404 (lines 102-107)
ReadRespond(w) ==
    /\ wk[w].pc = "respond"
    /\ wk' = [wk EXCEPT ![w].pc = "done",
                 ![w].resp =
                    IF wk[w].read.op = "list"
                    THEN MemPage(wk[w].read.seen, wk[w].read.limit)
                    ELSE IF ~wk[w].read.found
                    THEN writeError(StatusNotFound, "pet not found")
                    ELSE writeJSONPet(StatusOK, wk[w].read.seen[1])]
    /\ UNCHANGED <<variant, pets, order, mu, table, req, resp, access, created,
                   pager, oauth, twin, call>>

NextRead ==
    \E w \in Workers :
        \/ \E body \in RaceBodies : CreateBegin(w, body)
        \/ MemLock(w)
        \/ MemCheck(w)
        \/ MemConflict(w)
        \/ MemPut(w)
        \/ MemAppend(w)
        \/ MemCreated(w)
        \/ \E params \in ReadLimits : ListBegin(w, params)
        \/ \E petId \in ReadPetIds : ShowBegin(w, petId)
        \/ MemRLock(w)
        \/ MemCopy(w)
        \/ MemLookup(w)
        \/ MemRUnlock(w)
        \/ ReadRespond(w)
        \/ Finish(w)

SpecRead == InitRead /\ [][NextRead]_vars


-----------------------------------------------------------------------------
(* Google OAuth handler (SpecOAuth).  A state value is a string, given as   *)
(* its bytes; "" is the empty sequence.                                     *)

DefaultMaxAge == 600

\* x XOR y on bytes
RECURSIVE Xor(_, _, _)
Xor(x, y, bits) ==
    IF bits = 0 THEN 0
    ELSE ((x + y) % 2) + 2 * Xor(x \div 2, y \div 2, bits - 1)

\* x OR y on bytes
RECURSIVE Or(_, _, _)
Or(x, y, bits) ==
    IF bits = 0 THEN 0
    ELSE (IF x % 2 = 1 \/ y % 2 = 1 THEN 1 ELSE 0) + 2 * Or(x \div 2, y \div 2, bits - 1)

\* subtle.ConstantTimeCompare on slices of one length: v |= x[i] ^ y[i] over
\* every i, then v == 0
RECURSIVE CompareFrom(_, _, _, _)
CompareFrom(x, y, i, v) ==
    IF i > Len(x) THEN v
    ELSE CompareFrom(x, y, i + 1, Or(v, Xor(x[i], y[i], 8), 8))

ConstantTimeCompare(x, y) == IF CompareFrom(x, y, 1, 0) = 0 THEN 1 ELSE 0

\* a comparison of the lengths alone
constantTimeEqualLengths(a, b) == Len(a) = Len(b)

constantTimeEqual(a, b) ==
    IF Len(a) # Len(b) THEN FALSE ELSE ConstantTimeCompare(a, b) = 1

\* the query of a callback request; Query().Get gives "" for a missing parameter
Query(error, description, state, code) ==
    [error |-> error, description |-> description, state |-> state, code |-> code]

\* what a handler wrote: status, body text, the state cookie it set ("none",
\* "clear", or the value), the redirect's state parameter, and the steps it took
OAuthResponse(status, message, setCookie, redirectState, steps) ==
    [status |-> status, message |-> message, setCookie |-> setCookie,
     redirectState |-> redirectState, steps |-> steps]

\* the steps a handler took, as a set
Steps(r) == {r.steps[i] : i \in 1..Len(r.steps)}

CookieNone == [kind |-> "none", value |-> <<>>, maxAge |-> 0, expires |-> "none",
               httpOnly |-> FALSE, sameSite |-> ""]

\* NewHandler, the state cookie's settings: the max-age given when positive
NewHandlerKeepMaxAge(cfgMaxAge) == [maxAge |-> cfgMaxAge]

NewHandler(cfgMaxAge) ==
    [maxAge |-> IF cfgMaxAge <= 0 THEN DefaultMaxAge ELSE cfgMaxAge]

\* buildStateCookie
buildStateCookie(h, value) ==
    [kind |-> "set", value |-> value, maxAge |-> h.maxAge,
     \* time.Now().Add(maxAge seconds)
     expires |-> IF h.maxAge > 0 THEN "future" ELSE IF h.maxAge = 0 THEN "now" ELSE "past",
     httpOnly |-> TRUE, sameSite |-> "Lax"]

\* clearStateCookie
clearStateCookie ==
    [kind |-> "clear", value |-> <<>>, maxAge |-> -1,
     \* time.Unix(0, 0)
     expires |-> "past",
     httpOnly |-> TRUE, sameSite |-> "Lax"]

\* Handler.Login; rand is what generateState returns: Nil for an error of the
\* random source, else the state value
HandlerLogin(h, rand) ==
    IF rand = Nil
    THEN OAuthResponse(StatusInternalServerError, "failed to initiate oauth flow",
                       CookieNone, Nil, <<>>)
    ELSE OAuthResponse(StatusFound, "", buildStateCookie(h, rand[1]), rand, <<>>)

\* Handler.Callback, the user-info request and the response (lines 141-163),
\* without the check of the status of the user-info response
fetchUserInfoAnyStatus(provider, steps) ==
    IF provider = "userinfo-transport"
    THEN OAuthResponse(StatusBadGateway, "failed to retrieve user information",
                       clearStateCookie, Nil, steps \o <<"userinfo">>)
    ELSE IF provider = "userinfo-decode"
    THEN OAuthResponse(StatusBadGateway, "failed to decode user information",
                       clearStateCookie, Nil, steps \o <<"userinfo">>)
    ELSE OAuthResponse(StatusOK, "userinfo", clearStateCookie, Nil,
                       steps \o <<"userinfo", "write">>)

\* Handler.Callback, the user-info request and the response (lines 141-163)
fetchUserInfo(provider, steps) ==
    IF provider = "userinfo-transport"
    THEN OAuthResponse(StatusBadGateway, "failed to retrieve user information",
                       clearStateCookie, Nil, steps \o <<"userinfo">>)
    ELSE IF provider = "userinfo-status"
    THEN OAuthResponse(StatusBadGateway,
                       "unexpected response from google userinfo endpoint",
                       clearStateCookie, Nil, steps \o <<"userinfo">>)
    ELSE IF provider = "userinfo-decode"
    THEN OAuthResponse(StatusBadGateway, "failed to decode user information",
                       clearStateCookie, Nil, steps \o <<"userinfo">>)
    ELSE OAuthResponse(StatusOK, "userinfo", clearStateCookie, Nil,
                       steps \o <<"userinfo", "write">>)

\* Handler.Callback after the state check (lines 125-163), with the code looked
\* at before the cookie is cleared
exchangeAndFetchCodeFirst(q, provider, steps) ==
    IF q.code = ""
    THEN OAuthResponse(StatusBadRequest, "missing authorization code",
                       CookieNone, Nil, steps \o <<"code">>)
    ELSE IF provider = "exchange"
    THEN OAuthResponse(StatusBadGateway, "failed to exchange authorization code",
                       clearStateCookie, Nil, steps \o <<"code", "clear", "exchange">>)
    ELSE fetchUserInfo(provider, steps \o <<"code", "clear", "exchange">>)

\* Handler.Callback after the state check (lines 125-163): clear the cookie,
\* require the code, exchange it, fetch the user information
exchangeAndFetch(q, provider, steps) ==
    IF q.code = ""
    THEN OAuthResponse(StatusBadRequest, "missing authorization code",
                       clearStateCookie, Nil, steps \o <<"clear", "code">>)
    ELSE IF provider = "exchange"
    THEN OAuthResponse(StatusBadGateway, "failed to exchange authorization code",
                       clearStateCookie, Nil, steps \o <<"clear", "code", "exchange">>)
    ELSE fetchUserInfo(provider, steps \o <<"clear", "code", "exchange">>)

\* Handler.Callback; cookie is the state cookie of the request (Nil: none);
\* provider says how the identity provider answers: "ok", or the call that fails
HandlerCallback(q, cookie, provider) ==
    IF q.error # ""
    THEN OAuthResponse(StatusBadRequest,
            "google oauth error: " \o
                (IF q.description = "" THEN "authorization failed" ELSE q.description),
            CookieNone, Nil, <<"error">>)
    ELSE IF q.state = <<>>
    THEN OAuthResponse(StatusBadRequest, "missing state parameter",
                       CookieNone, Nil, <<"error", "state">>)
    ELSE IF cookie = Nil
    THEN OAuthResponse(StatusBadRequest, "oauth state cookie not found",
                       CookieNone, Nil, <<"error", "state", "cookie">>)
    ELSE IF ~constantTimeEqual(cookie[1], q.state)
    THEN OAuthResponse(StatusBadRequest, "invalid oauth state",
                       CookieNone, Nil, <<"error", "state", "cookie", "compare">>)
    ELSE exchangeAndFetch(q, provider, <<"error", "state", "cookie", "compare">>)

\* state values: two of one length that differ in the last byte, one that
\* differs in the first, and a proper prefix
StateValues == {<<65, 66>>, <<65, 67>>, <<97, 66>>, <<65>>}
\* what generateState can return
RandomStates == {Nil, Ptr(<<65, 66>>), Ptr(<<65, 67>>)}

Queries ==
    {Query(e[1], e[2], st, c) :
        e \in {<<"", "">>, <<"access_denied", "">>, <<"access_denied", "denied">>},
        st \in {<<>>} \cup StateValues,
        c \in {"", "code"}}
\* no cookie, a cookie with an empty value, or one with a state value
Cookies == {Nil, Ptr(<<>>)} \cup {Ptr(v) : v \in StateValues}
Providers ==
    {"ok", "exchange", "userinfo-transport", "userinfo-status", "userinfo-decode"}

\* the browser keeps the cookie a response sets and drops the one it clears
JarAfter(jar, setCookie) ==
    IF setCookie.kind = "set" THEN Ptr(setCookie.value)
    ELSE IF setCookie.kind = "clear" THEN Nil
    ELSE jar

InitOAuth ==
    /\ variant = "repo"
    /\ pets = EmptyMap
    /\ order = <<>>
    /\ mu = MuFree
    /\ table = EmptyTable
    /\ req = NoRequest
    /\ resp = NoResponse
    /\ access = "none"
    /\ created = {}
    /\ wk = [w \in Workers |-> WorkerIdle]
    /\ pager = PagerIdle
    /\ oauth = [OAuthIdle EXCEPT !.h = NewHandler(0)]
    /\ twin = NoResponse
    /\ call = NoCall

\* how the provider answered the calls a request made of it
Answered(r, provider) == IF "exchange" \in Steps(r) THEN provider ELSE "unasked"

\* GET /auth/google/login
Login(rand) ==
    LET r == HandlerLogin(oauth.h, rand) IN
    /\ oauth' = [oauth EXCEPT !.jar = JarAfter(oauth.jar, r.setCookie),
                              !.op = "login", !.query = <<>>, !.cookie = Nil,
                              !.provider = "unasked", !.rand = rand,
                              !.resp = <<r>>, !.replayed = FALSE]
    /\ UNCHANGED <<variant, pets, order, mu, table, req, resp, access, created, wk,
                   pager, twin, call>>

\* GET /auth/google/callback, with any query and any cookie a client can send
Callback(q, cookie, provider) ==
    LET r == HandlerCallback(q, cookie, provider) IN
    /\ oauth' = [oauth EXCEPT !.jar = JarAfter(oauth.jar, r.setCookie),
                              !.op = "callback", !.query = <<q>>,
                              !.cookie = cookie, !.resp = <<r>>,
                              !.provider = Answered(r, provider),
                              !.replayed = FALSE]
    /\ UNCHANGED <<variant, pets, order, mu, table, req, resp, access, created, wk,
                   pager, twin, call>>

\* the state check of the last callback passed: the handler went on to clear
\* the cookie
StateAccepted(r) == "clear" \in Steps(r)

\* GET /auth/google/callback once more: after a callback whose state was
\* accepted, the client sends the same request again, the cookie included
\* although the response told it to drop the cookie
CallbackRetry(provider) ==
    /\ oauth.op = "callback"
    /\ StateAccepted(oauth.resp[1])
    /\ LET r == HandlerCallback(oauth.query[1], oauth.cookie, provider) IN
       oauth' = [oauth EXCEPT !.jar = JarAfter(oauth.jar, r.setCookie),
                              !.resp = <<r>>,
                              !.provider = Answered(r, provider),
                              !.replayed = TRUE]
    /\ UNCHANGED <<variant, pets, order, mu, table, req, resp, access, created, wk,
                   pager, twin, call>>

NextOAuth ==
    \/ \E rand \in RandomStates : Login(rand)
    \/ \E q \in Queries, cookie \in Cookies, provider \in Providers :
          Callback(q, cookie, provider)
    \/ \E provider \in Providers : CallbackRetry(provider)

SpecOAuth == InitOAuth /\ [][NextOAuth]_vars

(* The login flow of a browser, for each configured max-age (SpecLogin) *)

\* GoogleOAuth.StateCookie.MaxAge as configured
ConfiguredMaxAges == {-1, 0, 1, 300}

InitLogin ==
    /\ variant = "repo"
    /\ pets = EmptyMap
    /\ order = <<>>
    /\ mu = MuFree
    /\ table = EmptyTable
    /\ req = NoRequest
    /\ resp = NoResponse
    /\ access = "none"
    /\ created = {}
    /\ wk = [w \in Workers |-> WorkerIdle]
    /\ pager = PagerIdle
    /\ \E cfgMaxAge \in ConfiguredMaxAges :
          oauth = [OAuthIdle EXCEPT !.cfg = cfgMaxAge, !.h = NewHandler(cfgMaxAge)]
    /\ twin = NoResponse
    /\ call = NoCall

\* the browser logs in, and comes back from the provider with the cookie it holds
NextLogin ==
    \/ \E rand \in RandomStates : Login(rand)
    \/ \E q \in Queries, provider \in Providers : Callback(q, oauth.jar, provider)
    \/ \E provider \in Providers : CallbackRetry(provider)

SpecLogin == InitLogin /\ [][NextLogin]_vars


-----------------------------------------------------------------------------
(* Properties of the pet service, one request at a time (Spec) *)

Ascending(ids) == \A i, j \in 1..Len(ids) : i < j => ids[i] < ids[j]
ListSet(r) == {r.list[i] : i \in 1..Len(r.list)}

\* C1: a list with no limit (absent or 0) whose backend round trip does not fail
\* returns 200 with exactly the objects created so far, each once, in strictly
\* ascending order of id, whatever the order they were created in; in the
\* in-memory server and in the repository-backed one.
C1_ListReturnsAllSorted ==
    (req.op = "list" /\ req.params \in {Nil, Ptr(0)} /\ req.fault = NoFault) =>
        /\ resp.status = StatusOK
        /\ Len(resp.list) = Cardinality(created)
        /\ ListSet(resp) = created
        /\ Ascending(ListIds(resp))

\* C1 happens: three pets created in an order that is not ascending, then listed
C1_Witness ==
    /\ variant = "mem"
    /\ req.op = "list" /\ req.params = Nil
    /\ order = <<2, -1, 1>>
    /\ ListIds(resp) = <<-1, 1, 2>>

\* C7: no stored pet has id 0 or an empty name, and a create whose body has no
\* id, id 0, no name or an empty name ends in 400 with the message that names
\* a field the body lacks, without reaching the store or the repository.
C7_NoInvalidPetStored ==
    /\ \A id \in DOMAIN pets : pets[id].Id # 0 /\ pets[id].Name # ""
    /\ \A id \in DOMAIN table : id # 0 /\ table[id].name # ""
    /\ \A o \in created : o.id \notin {Nil, Ptr(0)} /\ o.name \notin {Nil, Ptr("")}
    /\ (/\ req.op = "create"
        /\ req.body.kind = "object"
        /\ (req.body.obj.id \in {Nil, Ptr(0)} \/ req.body.obj.name \in {Nil, Ptr("")}))
       => /\ resp.status = StatusBadRequest
          /\ access = "none"
          /\ \/ resp.message = "id is required" /\ req.body.obj.id \in {Nil, Ptr(0)}
             \/ resp.message = "name is required" /\ req.body.obj.name \in {Nil, Ptr("")}

\* C7 happens: a create with an id and an empty name was refused while pets are stored
C7_Witness ==
    /\ req.op = "create"
    /\ req.body = JsonBody(JsonObject(Ptr(1), Ptr(""), Ptr("t")))
    /\ resp.status = StatusBadRequest
    /\ resp.message = "name is required"
    /\ created # {}

\* the id texts of the inputs that are 64-bit integers, with their values
IntegerTexts ==
    {<<Text(i), i>> : i \in Ids \cup {0}} \cup
    {<< <<"+", "1">>, 1 >>, << <<"0", "2">>, 2 >>}

\* C8: ShowPetById answers 400 when the id text is no 64-bit integer; when it is
\* one and the backend round trip does not fail, 404 when no pet with that id
\* was created and 200 with a pet of that id when one was.
C8_ShowStatus ==
    req.op = "show" =>
        /\ (\A t \in IntegerTexts : t[1] # req.petId) =>
              resp.status = StatusBadRequest /\ access = "none"
        /\ \A t \in IntegerTexts :
              (t[1] = req.petId /\ req.fault = NoFault) =>
                 IF \E o \in created : o.id = Ptr(t[2])
                 THEN resp.status = StatusOK /\ resp.one.id = Ptr(t[2])
                 ELSE resp.status = StatusNotFound

\* C8 happens: a stored pet was shown by a signed id text
C8_Witness ==
    /\ req.op = "show" /\ req.petId = <<"-", "1">>
    /\ resp.status = StatusOK
    /\ resp.one.id = Ptr(-1)

\* C9: when the create of an object ended in 201, a later show of its id whose
\* round trip does not fail returns that object: the same id, the same name and
\* the same tag, a tag that was not supplied being absent and an empty tag being
\* the empty string, whatever else was created in between.
C9_RoundTrip ==
    (req.op = "show" /\ req.fault = NoFault) =>
        \A o \in created, t \in IntegerTexts :
            (t[1] = req.petId /\ o.id = Ptr(t[2])) =>
                resp.status = StatusOK /\ resp.one = o

\* C9 happens: with other pets stored, a pet created with an empty tag is shown
C9_Witness ==
    /\ variant = "repo"
    /\ req.op = "show" /\ resp.status = StatusOK
    /\ resp.one.tag = Ptr("")
    /\ Cardinality(created) >= 3
    /\ \E o \in created : o.tag = Nil


-----------------------------------------------------------------------------
(* Properties of pagination (SpecPage, SpecClamp) *)

\* what is stored, read off the mounted server's store
StoredIds == IF variant = "mem" THEN DOMAIN pets ELSE DOMAIN table
StoredObject(id) ==
    IF variant = "mem"
    THEN JsonObject(Ptr(id), Ptr(pets[id].Name), pets[id].Tag)
    ELSE JsonObject(Ptr(id), Ptr(table[id].name),
                    IF table[id].tag.Valid THEN Ptr(table[id].tag.String) ELSE Nil)

\* the place of a stored id in ascending order, and the id at a place
PlaceOf(id) == Cardinality({j \in StoredIds : j < id}) + 1
IdAt(k) == CHOOSE id \in StoredIds : PlaceOf(id) = k

\* the limit in effect: 0 when absent, at most 100
EffectiveLimit(params) == IF params = Nil THEN 0 ELSE Min(params[1], 100)

\* a number of up to three digits in decimal
Numeral(n) ==
    LET a == IF n < 0 THEN 0 - n ELSE n
        d(k) == DigitChar[k + 1]
        digits == IF a < 10 THEN d(a)
                  ELSE IF a < 100 THEN d(a \div 10) \o d(a % 10)
                  ELSE d(a \div 100) \o d((a \div 10) % 10) \o d(a % 10)
    IN  IF n < 0 THEN "-" \o digits ELSE digits

\* a list request with a limit in effect that is positive and below the number
\* of stored pets has returned the L pets of smallest id, in ascending order
TruncatedPage(L) ==
    /\ resp.status = StatusOK
    /\ Len(resp.list) = L
    /\ \A k \in 1..L :
          /\ PlaceOf(resp.list[k].id[1]) = k
          /\ resp.list[k] = StoredObject(resp.list[k].id[1])

Truncating ==
    /\ req.op = "list"
    /\ req.params # Nil /\ req.params[1] > 0
    /\ Cardinality(StoredIds) > EffectiveLimit(req.params)

\* C3 as stated: the page is the L pets of smallest id in ascending order and
\* the continuation hint is the text limit=<L>&after=<nextId>, nextId being the
\* id of the (L+1)-th pet.
C3_HintAsStated ==
    Truncating =>
        LET L == EffectiveLimit(req.params) IN
        /\ TruncatedPage(L)
        /\ resp.xnext = Ptr("limit=" \o Numeral(L) \o "&after=" \o Numeral(IdAt(L + 1)))

\* C3 as amended: the page is the L pets of smallest id in ascending order and
\* the x-next header is the text /pets?limit=<L>&after=<nextId>, nextId being
\* the id of the (L+1)-th pet.
C3_PageAndHeader ==
    Truncating =>
        LET L == EffectiveLimit(req.params) IN
        /\ TruncatedPage(L)
        /\ resp.xnext =
              Ptr("/pets?limit=" \o Numeral(L) \o "&after=" \o Numeral(IdAt(L + 1)))

\* C3 happens: pets created as 5, 1, 3, 9 and listed with limit 2
C3_Witness ==
    /\ req.op = "list" /\ req.params = Ptr(2)
    /\ StoredIds = {1, 3, 5, 9}
    /\ variant = "mem" => order = <<5, 1, 3, 9>>
    /\ ListIds(resp) = <<1, 3>>
    /\ resp.xnext = Ptr("/pets?limit=2&after=5")

\* C4 as stated: the k-th page a client receives by following the hints holds
\* the pets that follow the (k-1)-th page, so that the pages received are the
\* stored pets in ascending order, each once, and the client is left with a
\* hint only while pets remain.
C4_HintResumes ==
    pager.pc # "idle" =>
        LET n == Cardinality(StoredIds)
            L == pager.limit
        IN  /\ \A k \in 1..Len(pager.pages) :
                  pager.pages[k] =
                     Slice([i \in 1..(Min(k * L, n) - Min((k - 1) * L, n)) |->
                               IdAt((k - 1) * L + i)])
            /\ pager.pc = "more" => Len(pager.pages) * L < n

\* C5: a list request with a limit that is not negative returns 200; it carries
\* the x-next header exactly when the limit in effect L is positive and more
\* than L pets are stored, and without the header it returns every stored pet.
C5_HintIffTruncated ==
    (req.op = "list" /\ (req.params = Nil \/ req.params[1] >= 0)) =>
        LET L == EffectiveLimit(req.params) IN
        /\ resp.status = StatusOK
        /\ resp.xnext # NoHeader <=> (L > 0 /\ Cardinality(StoredIds) > L)
        /\ resp.xnext = NoHeader =>
              /\ Len(resp.list) = Cardinality(StoredIds)
              /\ ListSet(resp) = {StoredObject(id) : id \in StoredIds}

\* C5 happens: a limit equal to the number of stored pets: all of them, no header
C5_Witness ==
    /\ req.op = "list" /\ req.params = Ptr(2)
    /\ StoredIds = {1, 3}
    /\ variant = "repo"
    /\ ListIds(resp) = <<1, 3>>
    /\ resp.xnext = NoHeader

\* C6: a list request with a negative limit ends in 400 and does not read the
\* store; one with a limit over 100 gets the response that limit 100 gets on
\* the same store, page and header.
C6_NegativeAndClamp ==
    (req.op = "list" /\ req.params # Nil) =>
        /\ req.params[1] < 0 =>
              /\ resp.status = StatusBadRequest
              /\ resp.message = "limit must be non-negative"
              /\ access = "none"
        /\ req.params[1] > 100 => resp = ListPetsHandler(Ptr(100)).resp

\* C6 happens: over 100 pets stored and limit 101 asked for: 100 pets and a header
C6_Witness ==
    /\ req.op = "list" /\ req.params = Ptr(101)
    /\ StoredIds = BulkIds \cup {1}
    /\ Len(resp.list) = 100
    /\ resp.list[1].id = Ptr(1)
    /\ resp.xnext # NoHeader


-----------------------------------------------------------------------------
(* Properties of concurrent creates (SpecRace) *)

\* two finished create requests for the same valid id that were in flight at
\* the same time, both begun when the id was not stored, neither hit by a
\* failure of the repository round trip
RacedPair(w1, w2) ==
    /\ w1 # w2
    /\ wk[w1].pc = "done" /\ wk[w2].pc = "done"
    /\ wk[w1].pet.Id # 0 /\ wk[w1].pet.Id = wk[w2].pet.Id
    /\ w1 \in wk[w2].with /\ w2 \in wk[w1].with
    /\ wk[w1].fresh /\ wk[w2].fresh
    /\ wk[w1].fault = NoFault /\ wk[w2].fault = NoFault

\* C2: of two CreatePets requests for the same valid id that run concurrently
\* (the id not being stored before), exactly one ends in 201 and exactly one in
\* 409, and the store then holds one record for the id, the pet of the request
\* that ended in 201.
C2_OneCreateWins ==
    \A w1, w2 \in Workers :
        RacedPair(w1, w2) =>
            /\ {wk[w1].resp.status, wk[w2].resp.status} = {StatusCreated, StatusConflict}
            /\ wk[w1].resp.status # wk[w2].resp.status
            /\ wk[w1].pet.Id \in StoredIds
            /\ \A w \in {w1, w2} :
                  wk[w].resp.status = StatusCreated =>
                      StoredObject(wk[w].pet.Id) = wk[w].body.obj
            /\ variant = "mem" =>
                  Cardinality({i \in 1..Len(order) : order[i] = wk[w1].pet.Id}) = 1

\* C2 happens: two creates of id 1 with different pets raced; the one that
\* began second won
C2_Witness ==
    /\ RacedPair(1, 2)
    /\ variant = "mem"
    /\ wk[1].body # wk[2].body
    /\ wk[1].resp.status = StatusConflict
    /\ wk[2].resp.status = StatusCreated


-----------------------------------------------------------------------------
(* Properties of the OAuth handler (SpecOAuth) *)

\* C10: a callback whose state parameter is absent, whose state cookie is absent,
\* or whose cookie value differs from the state parameter ends in 400, and
\* neither the token exchange nor the user-info request is made for it.
C10_BadStateNeverExchanges ==
    (/\ oauth.op = "callback"
     /\ \/ oauth.query[1].state = <<>>
        \/ oauth.cookie = Nil
        \/ oauth.cookie[1] # oauth.query[1].state)
    => /\ oauth.resp[1].status = StatusBadRequest
       /\ \A i \in 1..Len(oauth.resp[1].steps) :
             oauth.resp[1].steps[i] \notin {"exchange", "userinfo"}

\* C10 happens: a callback with a code, a willing provider, and a cookie of the
\* same length as the state parameter that differs from it in the last byte
C10_Witness ==
    /\ oauth.op = "callback"
    /\ oauth.query[1] = Query("", "", <<65, 66>>, "code")
    /\ oauth.cookie = Ptr(<<65, 67>>)
    /\ oauth.resp[1].status = StatusBadRequest
    /\ oauth.resp[1].message = "invalid oauth state"


\* C11 as stated: a callback that presents again the state value and the cookie
\* value of a callback already accepted is rejected with 400 and does not reach
\* the code exchange.
C11_StateSingleUse ==
    (oauth.op = "callback" /\ oauth.replayed) =>
        /\ oauth.resp[1].status = StatusBadRequest
        /\ "exchange" \notin Steps(oauth.resp[1])

\* C12 as stated: a callback that presents the state cookie together with a state
\* parameter, whether the two match or not, is answered with a Set-Cookie that
\* expires the cookie: empty value, negative max-age, expiry in the past.
C12_ClearedOnFirstUse ==
    (/\ oauth.op = "callback"
     /\ oauth.query[1].error = ""
     /\ oauth.query[1].state # <<>>
     /\ oauth.cookie # Nil)
    => /\ oauth.resp[1].setCookie.kind = "clear"
       /\ oauth.resp[1].setCookie.value = <<>>
       /\ oauth.resp[1].setCookie.maxAge < 0
       /\ oauth.resp[1].setCookie.expires = "past"

\* the caller's part of a callback is at fault: the provider reported an error,
\* the state parameter or the cookie is missing, they differ, or the code is
\* missing
CallerFault ==
    \/ oauth.query[1].error # ""
    \/ oauth.query[1].state = <<>>
    \/ oauth.cookie = Nil
    \/ oauth.cookie[1] # oauth.query[1].state
    \/ oauth.query[1].code = ""

\* C13: a callback at fault on the caller's side yields 400 and the provider is
\* not called; otherwise a failed exchange or a failed user-info fetch (transport
\* error, status other than 200, undecodable body) yields 502, and only when
\* both succeeded the answer is 200 with the user information.
C13_OutcomesByCause ==
    oauth.op = "callback" =>
        /\ oauth.resp[1].status \in {StatusOK, StatusBadRequest, StatusBadGateway}
        /\ CallerFault =>
              oauth.resp[1].status = StatusBadRequest /\ oauth.provider = "unasked"
        /\ ~CallerFault =>
              /\ oauth.provider \in Providers
              /\ oauth.provider # "ok" => oauth.resp[1].status = StatusBadGateway
              /\ oauth.provider = "ok" =>
                    oauth.resp[1].status = StatusOK /\ oauth.resp[1].message = "userinfo"

\* C13 happens: state and code are fine, the exchange succeeds, the user-info
\* endpoint answers with a status other than 200
C13_Witness ==
    /\ oauth.op = "callback"
    /\ ~CallerFault
    /\ oauth.provider = "userinfo-status"
    /\ oauth.resp[1].status = StatusBadGateway
    /\ oauth.resp[1].message = "unexpected response from google userinfo endpoint"

\* the steps of a callback, in the order they are written in the handler
StepOrder ==
    <<"error", "state", "cookie", "compare", "clear", "code", "exchange", "userinfo",
      "write">>

\* the place in StepOrder of the first step that ends the last callback
LastStep ==
    IF oauth.query[1].error # "" THEN 1
    ELSE IF oauth.query[1].state = <<>> THEN 2
    ELSE IF oauth.cookie = Nil THEN 3
    ELSE IF oauth.cookie[1] # oauth.query[1].state THEN 4
    ELSE IF oauth.query[1].code = "" THEN 6
    ELSE IF oauth.provider = "exchange" THEN 7
    ELSE IF oauth.provider = "ok" THEN 9
    ELSE 8

\* C16: the steps of a callback are taken in the fixed order, up to and including
\* the first check that fails and none after it; the exchange only after the
\* state matched, the clearing cookie was emitted and the code was found, the
\* user-info fetch only after the exchange succeeded, success only at the end.
C16_StepsInOrder ==
    oauth.op = "callback" =>
        LET r == oauth.resp[1] IN
        /\ r.steps = SubSeq(StepOrder, 1, LastStep)
        /\ LastStep >= 7 => oauth.provider \in Providers
        /\ r.setCookie.kind = "clear" <=> "clear" \in Steps(r)
        /\ r.status = StatusOK <=> LastStep = Len(StepOrder)

\* C16 happens: the state matches and the code is present, the exchange fails:
\* seven steps and no more
C16_Witness ==
    /\ oauth.op = "callback"
    /\ oauth.provider = "exchange"
    /\ oauth.resp[1].steps =
          <<"error", "state", "cookie", "compare", "clear", "code", "exchange">>
    /\ oauth.resp[1].status = StatusBadGateway
    /\ oauth.resp[1].setCookie.kind = "clear"

-----------------------------------------------------------------------------
(* Properties of the login flow (SpecLogin) *)

\* C20: a Login whose state value was generated answers 302, the state cookie
\* holds the very value the redirect carries as state, is HTTP-only and
\* SameSite-lax, and its max-age is the configured one, or 600 when that is zero
\* or negative; a Login whose generation failed answers 500 with no cookie and
\* no redirect.
C20_LoginBindsCookie ==
    oauth.op = "login" =>
        LET r == oauth.resp[1] IN
        IF oauth.rand = Nil
        THEN /\ r.status = StatusInternalServerError
             /\ r.setCookie.kind = "none"
             /\ r.redirectState = Nil
        ELSE /\ r.status = StatusFound
             /\ r.redirectState = oauth.rand
             /\ r.setCookie.kind = "set"
             /\ r.setCookie.value = r.redirectState[1]
             /\ r.setCookie.httpOnly
             /\ r.setCookie.sameSite = "Lax"
             /\ r.setCookie.maxAge = IF oauth.cfg <= 0 THEN 600 ELSE oauth.cfg

\* C20 happens: a negative max-age is configured and a Login succeeds
C20_Witness ==
    /\ oauth.op = "login"
    /\ oauth.cfg = -1
    /\ oauth.rand = Ptr(<<65, 67>>)
    /\ oauth.resp[1].status = StatusFound
    /\ oauth.resp[1].setCookie.maxAge = 600
    /\ oauth.jar = Ptr(<<65, 67>>)

-----------------------------------------------------------------------------
(* Further properties of the pet service, one request at a time (Spec) *)

\* every stored record, by id
StoredMap == [id \in StoredIds |-> StoredObject(id)]

\* C18: a request that is not a create ending in 201 leaves every stored record
\* as it was (a create of an id already stored leaves that record's name and
\* tag); a create ending in 201 adds the submitted pet under an id not stored
\* before and changes no other record.
C18_OnlyCreatedChangesStore ==
    [][IF req'.op = "create" /\ resp'.status = StatusCreated
       THEN LET new == req'.body.obj IN
            /\ new.id[1] \notin StoredIds
            /\ StoredMap' = [id \in StoredIds \cup {new.id[1]} |->
                                 IF id = new.id[1] THEN new ELSE StoredMap[id]]
            /\ variant = "mem" => order' = Append(order, new.id[1])
       ELSE /\ StoredMap' = StoredMap
            /\ order' = order]_vars

\* C18 happens: a create of a stored id with another name and tag got 409 and
\* the record is the one stored first
C18_Witness ==
    /\ req.op = "create" /\ resp.status = StatusConflict
    /\ req.body.obj = JsonObject(Ptr(1), Ptr("b"), Ptr(""))
    /\ 1 \in StoredIds
    /\ StoredObject(1) = JsonObject(Ptr(1), Ptr("a"), Nil)

\* the message of the 500 of each operation
FixedMessage ==
    [list |-> "failed to list pets", create |-> "failed to create pet",
     show |-> "failed to fetch pet"]

\* C19: when the round trip of the repository-backed server fails, whatever the
\* text of the error, the response is 500 with the operation's fixed message
\* and nothing else: no header, no pet, no part of the error's text.
C19_BackendErrorIsGeneric ==
    (variant = "repo" /\ req.fault # NoFault /\ access # "none") =>
        resp = writeError(StatusInternalServerError, FixedMessage[req.op])

\* C19 happens: looking up a stored pet fails with a connection error
C19_Witness ==
    /\ variant = "repo"
    /\ req.op = "show" /\ req.petId = <<"1">> /\ 1 \in StoredIds
    /\ req.fault = "connection refused"
    /\ resp.status = StatusInternalServerError
    /\ resp.message = "failed to fetch pet"

-----------------------------------------------------------------------------
(* Properties of reads that run beside creates (SpecRead) *)

\* the pets of a read's response, as JSON objects
ReadObjects(r) ==
    IF r.kind = "pets" THEN {r.list[i] : i \in 1..Len(r.list)}
    ELSE IF r.kind = "pet" THEN {r.one}
    ELSE {}

\* C17: a ListPets or ShowPetById of the in-memory server that ran beside
\* creates returns only whole pets that a create stored and finished (an id
\* that is not zero, a name that is not empty, never the zero record), and it
\* returns every pet whose create had ended before the read arrived.
C17_ReadsSeeWholeWrites ==
    \A w \in Workers :
        (wk[w].pc = "done" /\ wk[w].read.op # "none"
                           /\ wk[w].resp.status # StatusBadRequest) =>
            /\ \A o \in ReadObjects(wk[w].resp) :
                  /\ o \in created
                  /\ o.id # Nil /\ o.id[1] # 0
                  /\ o.name # Nil /\ o.name[1] # ""
            /\ (wk[w].read.op = "list" /\ wk[w].resp.xnext = NoHeader) =>
                  wk[w].read.before \subseteq ReadObjects(wk[w].resp)
            /\ wk[w].read.op = "show" =>
                  \A o \in wk[w].read.before :
                      o.id[1] = wk[w].read.id => ReadObjects(wk[w].resp) = {o}

\* C17 happens: a list that arrived after one create had ended and read the
\* store while another create was waiting for the lock returned the first pet
\* only
C17_Witness ==
    \E w, v \in Workers :
        /\ wk[w].pc = "done" /\ wk[w].read.op = "list"
        /\ wk[w].read.before = {JsonObject(Ptr(1), Ptr("a"), Nil)}
        /\ ReadObjects(wk[w].resp) = wk[w].read.before
        /\ wk[v].pc \in {"check", "put", "append", "unlock"}
        /\ wk[v].pet.Id = 2

-----------------------------------------------------------------------------
(* Properties of the two servers side by side (SpecTwin) *)

\* C14: after any sequence of list, create and get requests given to both
\* servers, the repository not failing, the two responses to each request are
\* the same: status, body and x-next header.
C14_VariantsAgree ==
    /\ resp.status = twin.status
    /\ resp.xnext = twin.xnext
    /\ resp.kind = twin.kind
    /\ resp.message = twin.message
    /\ resp.list = twin.list
    /\ resp.one = twin.one

\* C14 happens: pets created as 2 then 1, one of them with an empty tag, and a
\* list with limit 1 answered by both with the pet 1 and the same header
C14_Witness ==
    /\ variant = "both"
    /\ order = <<2, 1>>
    /\ req.op = "list" /\ req.params = Ptr(1)
    /\ twin.status = StatusOK
    /\ twin.xnext = Ptr("/pets?limit=1&after=2")
    /\ Len(twin.list) = 1 /\ twin.list[1].id = Ptr(1) /\ twin.list[1].tag = Ptr("")
    /\ resp = twin

-----------------------------------------------------------------------------
(* Properties of update and delete (SpecStore) *)

\* a round trip failed for a reason of the database's own
CallFaulted == \E f \in Faults \ {NoFault} :
                  call.err \in {"failed to update pet: " \o f, "failed to delete pet: " \o f}

\* get and create of an id, asked of the mounted backend as it is now
GetStatus(id) ==
    IF variant = "mem" THEN InMemoryServerShowPetById(pets, Text(id)).resp.status
    ELSE ServerShowPetById(table, Text(id), NoFault).resp.status
CreateStatus(id) ==
    LET body == JsonBody(JsonObject(Ptr(id), Ptr("a"), Nil)) IN
    IF variant = "mem" THEN InMemoryServerCreatePets(pets, order, body).resp.status
    ELSE ServerCreatePets(table, body, NoFault).resp.status

\* the update part: an update of a stored id succeeds and replaces name and tag
\* of that record only; an update of an id not stored fails with NotFound and
\* changes nothing
UpdateAsStated ==
    (call.op = "update" /\ ~CallFaulted) =>
        IF call.id \in DOMAIN call.before
        THEN /\ call.err = ""
             /\ StoredIds = DOMAIN call.before
             /\ \A id \in StoredIds :
                   StoredObject(id) = IF id = call.id THEN EncodePet(call.pet)
                                      ELSE call.before[id]
        ELSE /\ call.err = "ErrPetNotFound"
             /\ StoredIds = DOMAIN call.before
             /\ \A id \in StoredIds : StoredObject(id) = call.before[id]

\* the delete part: a delete of a stored id succeeds and removes that record
\* only, after which a get of the id is NotFound and a create of it succeeds; a
\* delete of an id not stored fails with NotFound and changes nothing
DeleteAsStated ==
    (call.op = "delete" /\ ~CallFaulted) =>
        IF call.id \in DOMAIN call.before
        THEN /\ call.err = ""
             /\ StoredIds = DOMAIN call.before \ {call.id}
             /\ \A id \in StoredIds : StoredObject(id) = call.before[id]
             /\ GetStatus(call.id) = StatusNotFound
             /\ CreateStatus(call.id) = StatusCreated
        ELSE /\ call.err = "ErrPetNotFound"
             /\ StoredIds = DOMAIN call.before
             /\ \A id \in StoredIds : StoredObject(id) = call.before[id]

\* C15 as stated: update and delete behave so on every storage backend, the
\* in-memory one and the PostgreSQL one.
C15_UpdateDeleteEverywhere == UpdateAsStated /\ DeleteAsStated

\* update and delete behave so on the PostgreSQL backend
UpdateDeletePostgres == variant = "repo" => (UpdateAsStated /\ DeleteAsStated)

-----------------------------------------------------------------------------
(* The in-memory store's two structures (SpecRead) *)

\* the ids of the order index
OrderIds == {order[i] : i \in 1..Len(order)}

\* C21 as stated: in every reachable state the order index has no duplicate,
\* every id in it is a key of the lookup table, every key of the lookup table
\* is in it, and each stored pet's Id is its key.
C21_IndexAndTableAlways ==
    /\ Cardinality(OrderIds) = Len(order)
    /\ OrderIds = DOMAIN pets
    /\ \A id \in DOMAIN pets : pets[id].Id = id

\* C21 amended: the order index never has a duplicate, every id in it is a key
\* of the lookup table and each stored pet's Id is its key; every key of the
\* lookup table is in the order index whenever no create holds the write lock,
\* and while one does the only key that can be missing is the id it inserts.
C21_IndexAndTable ==
    /\ Cardinality(OrderIds) = Len(order)
    /\ OrderIds \subseteq DOMAIN pets
    /\ \A id \in DOMAIN pets : pets[id].Id = id
    /\ mu.writer = 0 => DOMAIN pets = OrderIds
    /\ mu.writer # 0 => DOMAIN pets \ OrderIds \subseteq {wk[mu.writer].pet.Id}

\* C21 happens: two pets are stored, created as 2 then 1, the lock is free and
\* a further create of a stored id is on its way
C21_Witness ==
    /\ order = <<2, 1>>
    /\ DOMAIN pets = {1, 2}
    /\ mu = MuFree
    /\ \E w \in Workers : wk[w].pc = "lock" /\ wk[w].pet.Id = 1

-----------------------------------------------------------------------------
(* The limit handed to the repository (SpecClamp) *)

\* the limit the last list request handed to PostgresRepository.ListPets
BackendLimit == ServerListPets(table, req.params, req.fault).fetchLimit

\* C22: whatever int32 limit is requested of the repository-backed ListPets,
\* the repository is handed 0 when the limit is absent or 0 and otherwise the
\* capped limit plus one, a number of 2..101 that has not wrapped around; a
\* negative limit reaches no repository; the page of a positive limit has at
\* most 100 pets.
C22_BackendLimitInRange ==
    (variant = "repo" /\ req.op = "list") =>
        IF req.params = Nil \/ req.params[1] = 0
        THEN access = "read" /\ BackendLimit = 0
        ELSE IF req.params[1] < 0
        THEN access = "none"
        ELSE /\ access = "read"
             /\ BackendLimit \in 2..(MaxLimit + 1)
             /\ BackendLimit = Min(req.params[1], MaxLimit) + 1
             /\ Len(resp.list) <= MaxLimit

\* C22 happens: the largest int32 is requested of a table of more than 101
\* pets; the repository is handed 101 and the page has 100 pets
C22_Witness ==
    /\ variant = "repo"
    /\ req.op = "list"
    /\ req.params = Ptr(MaxInt32)
    /\ Cardinality(DOMAIN table) > MaxLimit + 1
    /\ BackendLimit = MaxLimit + 1
    /\ Len(resp.list) = MaxLimit

====
